---------------------------- MODULE Spec2Model ----------------------------
(***************************************************************************)
(* Model of the client-side guard layer of shared/salesforce_client.py:    *)
(* ApiUsageTracker, the write-back confirmation guard and the six          *)
(* operations of SalesforceClient, plus the per-invocation client factory  *)
(* of mcp_servers/salesforce_crm/server.py.                                *)
(*                                                                         *)
(* Floating-point values are kept as exact integers: warning_threshold is  *)
(* held as a whole percentage (0.80 -> 80) and usage_percent is compared   *)
(* by cross-multiplication.                                                *)
(***************************************************************************)
EXTENDS Integers, FiniteSets, Sequences, TLC

VARIABLES
    daily_limit,     \* ApiUsageTracker.daily_limit
    warning_pct,     \* ApiUsageTracker.warning_threshold * 100
    calls_made,      \* ApiUsageTracker.calls_made
    dispatched,      \* number of calls that reached the backend in this session
    asked,           \* history: write requests this client answered with the confirmation signal
    last,            \* the last completed client call and what it returned or raised
    pc,              \* concurrent use: position of each thread inside an operation
    tmp,             \* concurrent use: value of calls_made loaded by `calls_made += 1`
    tcall,           \* concurrent use: the call each thread is executing
    probe            \* input and result of the function or tool run examined on its own

vars == <<daily_limit, warning_pct, calls_made, dispatched, asked, last, pc, tmp, tcall, probe>>

---------------------------------------------------------------------------
(* Bounds of the exploration *)

MaxLimit == 3
MaxSessionCalls == 3

\* Model-scale stand-in for the tracker's default daily_limit of 100_000.
DefaultDailyLimit == 2

\* RATE_LIMIT_WARNING_PERCENT = 0.80, as a percentage.
DefaultWarningPct == 80

Limits == 0 .. MaxLimit
WarningPcts == {25, 80}

SObjects == {"Task", "Case"}
RecordIds == {"500A", "500B"}
Data == {"d1", "d2"}
QueryTexts == {"q1"}
Threads == {1, 2}

None == "-"

---------------------------------------------------------------------------
(* ApiUsageTracker *)

\* A record_call that loses the increment.
RecordCallLost(c) == c

\* A record_call that counts a call twice.
RecordCallTwice(c) == c + 2

RecordCall(c) == c + 1

\* round(num/den) to the nearest integer, ties to even (Python's round and
\* the .0f format), for num >= 0 and den > 0.
RoundHalfEven(num, den) ==
    LET q == num \div den
        r == num % den
    IN  IF 2 * r > den THEN q + 1
        ELSE IF 2 * r < den THEN q
        ELSE IF q % 2 = 0 THEN q ELSE q + 1

\* usage_percent, in tenths of a percent as get_status rounds it.
UsagePercentTenths(c, l) == IF l > 0 THEN RoundHalfEven(c * 1000, l) ELSE 0

\* A warning test that misses the threshold itself.
IsWarningStrict(c, l, p) == IF l > 0 THEN c * 100 > p * l ELSE 0 > p

\* usage_percent >= warning_threshold * 100, with usage_percent = 0 when
\* daily_limit <= 0.
IsWarning(c, l, p) == IF l > 0 THEN c * 100 >= p * l ELSE 0 >= p

\* An off-by-one exceeded test.
IsExceededStrict(c, l) == c > l

IsExceeded(c, l) == c >= l

GetStatus(c, l, p) ==
    [calls_made    |-> c,
     daily_limit   |-> l,
     usage_percent |-> UsagePercentTenths(c, l),
     is_warning    |-> IsWarning(c, l, p),
     is_exceeded   |-> IsExceeded(c, l)]

---------------------------------------------------------------------------
(* Calls *)

ReadOps == {"query", "query_all", "search", "get_record"}
WriteOps == {"create_record", "update_record"}

MkCall(op, sobject, record_id, data, text, confirmed) ==
    [op |-> op, sobject |-> sobject, record_id |-> record_id,
     data |-> data, text |-> text, confirmed |-> confirmed]

QueryCalls == {MkCall(op, None, None, None, t, FALSE) :
                  op \in {"query", "query_all", "search"}, t \in QueryTexts}
GetCalls == {MkCall("get_record", s, r, None, None, FALSE) :
                  s \in SObjects, r \in RecordIds}
CreateCalls == {MkCall("create_record", s, None, d, None, c) :
                  s \in SObjects, d \in Data, c \in BOOLEAN}
UpdateCalls == {MkCall("update_record", s, r, d, None, c) :
                  s \in SObjects, r \in RecordIds, d \in Data, c \in BOOLEAN}

\* What identifies a write request across attempts: everything but the flag.
Request(call) == [op |-> call.op, sobject |-> call.sobject,
                  record_id |-> call.record_id, data |-> call.data]

NoCall == MkCall(None, None, None, None, None, FALSE)

\* The write requests whose history `asked` keeps.
TrackedRequests ==
    {[op |-> "create_record", sobject |-> "Task", record_id |-> None, data |-> "d1"],
     [op |-> "update_record", sobject |-> "Case", record_id |-> "500A", data |-> "d2"]}

\* str.lower() on the object type names in use.
Lower(s) == CASE s = "Task" -> "task"
              [] s = "Case" -> "case"
              [] OTHER -> s

---------------------------------------------------------------------------
(* Backend collaborator: a call either succeeds or raises SalesforceError. *)
(* An error message is modelled by the set of marker substrings the        *)
(* client tests for that occur in it.                                      *)

Markers == {"INSUFFICIENT_ACCESS", "INVALID_SESSION_ID", "REQUEST_LIMIT_EXCEEDED",
            "QUERY_TOO_COMPLICATED", "NOT_FOUND", "ENTITY_IS_DELETED"}

ErrorMessages == {{}} \cup {{m} : m \in Markers}
                      \cup {{"NOT_FOUND", "INSUFFICIENT_ACCESS"}}

Success == [ok |-> TRUE, msg |-> {}]
BackendOutcomes == {Success} \cup {[ok |-> FALSE, msg |-> m] : m \in ErrorMessages}

---------------------------------------------------------------------------
(* Results of a client call *)

NoDetails == [empty |-> TRUE]

\* SalesforceClientError(code, message, details)
ClientError(code, message, details) ==
    [kind |-> "error", code |-> code, message |-> message, details |-> details]

\* A confirmation signal that lower-cases the object type it reports.
WriteBackConfirmationLowered(call) ==
    [kind |-> "confirm", code |-> None,
     message |-> <<"Write-back confirmation required for",
                   IF call.op = "create_record" THEN "create" ELSE "update",
                   Lower(call.sobject)>>,
     details |-> IF call.op = "create_record"
                 THEN [object |-> Lower(call.sobject), data |-> call.data]
                 ELSE [object |-> Lower(call.sobject), record_id |-> call.record_id,
                       data |-> call.data]]

\* WriteBackConfirmationError(operation=f"create_{sobject.lower()}", details=...):
\* message[2..3] is the operation name; create carries no record id.
WriteBackConfirmationError(call) ==
    [kind |-> "confirm", code |-> None,
     message |-> <<"Write-back confirmation required for",
                   IF call.op = "create_record" THEN "create" ELSE "update",
                   Lower(call.sobject)>>,
     details |-> IF call.op = "create_record"
                 THEN [object |-> call.sobject, data |-> call.data]
                 ELSE [object |-> call.sobject, record_id |-> call.record_id,
                       data |-> call.data]]

\* What a successful call returns: the backend's result (records are not
\* detailed here).
Returned(call) ==
    [kind |-> "ok", code |-> None,
     message |-> <<>>,
     details |-> CASE call.op = "create_record" -> [value |-> "id+success"]
                   [] call.op = "update_record" -> [value |-> "True"]
                   [] OTHER -> [value |-> "records"]]

\* Error translation with the REQUEST_LIMIT_EXCEEDED branch of query copied
\* into every operation.
TranslateLimitEverywhere(call, msg) ==
    IF "REQUEST_LIMIT_EXCEEDED" \in msg
          /\ ~(call.op = "query" /\ ("INSUFFICIENT_ACCESS" \in msg \/ "INVALID_SESSION_ID" \in msg))
    THEN ClientError("RATE_LIMIT_EXCEEDED", <<"Salesforce API rate limit exceeded.">>, NoDetails)
    ELSE ClientError("SF_API_ERROR", <<"call failed:", msg>>, NoDetails)

\* The except-branches of each operation: SalesforceError -> SalesforceClientError.
Translate(call, msg) ==
    CASE call.op = "query" ->
           IF "INSUFFICIENT_ACCESS" \in msg \/ "INVALID_SESSION_ID" \in msg
           THEN ClientError("AUTH_ERROR", <<"Authentication failed:", msg>>, NoDetails)
           ELSE IF "REQUEST_LIMIT_EXCEEDED" \in msg
           THEN ClientError("RATE_LIMIT_EXCEEDED",
                            <<"Salesforce API rate limit exceeded.">>, NoDetails)
           ELSE IF "QUERY_TOO_COMPLICATED" \in msg
           THEN ClientError("QUERY_TOO_COMPLEX", <<"Query is too complex.">>, NoDetails)
           ELSE ClientError("SF_API_ERROR", <<"SOQL query failed:", msg>>, NoDetails)
      [] call.op = "query_all" ->
           ClientError("SF_API_ERROR", <<"SOQL query failed:", msg>>, NoDetails)
      [] call.op = "search" ->
           ClientError("SF_API_ERROR", <<"SOSL search failed:", msg>>, NoDetails)
      [] call.op = "create_record" ->
           IF "INSUFFICIENT_ACCESS" \in msg
           THEN ClientError("PERMISSION_DENIED",
                            <<"Insufficient permissions to create", call.sobject, msg>>,
                            NoDetails)
           ELSE ClientError("SF_API_ERROR", <<"Failed to create", call.sobject, msg>>,
                            NoDetails)
      [] call.op = "update_record" ->
           IF "NOT_FOUND" \in msg \/ "ENTITY_IS_DELETED" \in msg
           THEN ClientError("NOT_FOUND", <<call.sobject, call.record_id, "not found.">>,
                            NoDetails)
           ELSE IF "INSUFFICIENT_ACCESS" \in msg
           THEN ClientError("PERMISSION_DENIED",
                            <<"Insufficient permissions to update", call.sobject, msg>>,
                            NoDetails)
           ELSE ClientError("SF_API_ERROR", <<"Failed to update", call.sobject, msg>>,
                            NoDetails)
      [] OTHER ->
           IF "NOT_FOUND" \in msg
           THEN ClientError("NOT_FOUND", <<call.sobject, call.record_id, "not found.">>,
                            NoDetails)
           ELSE ClientError("SF_API_ERROR", <<"Failed to retrieve", call.sobject, msg>>,
                            NoDetails)

---------------------------------------------------------------------------
(* SalesforceClient._check_rate_limit *)

UsagePercentWhole(c, l) == IF l > 0 THEN RoundHalfEven(c * 100, l) ELSE 0

\* A rate-limit check that treats the warning band as fatal.
CheckRateLimitWarningFatal(c, l, p) ==
    IF IsExceeded(c, l) \/ IsWarning(c, l, p)
    THEN [kind |-> "raise", code |-> "RATE_LIMIT_EXCEEDED",
          message |-> <<"Salesforce API daily limit exceeded.">>,
          details |-> GetStatus(c, l, p)]
    ELSE [kind |-> "none", code |-> None, message |-> <<>>, details |-> NoDetails]

\* kind "raise": raises SalesforceClientError; "warning": returns the
\* warning dict; "none": returns None.
CheckRateLimit(c, l, p) ==
    IF IsExceeded(c, l)
    THEN [kind |-> "raise", code |-> "RATE_LIMIT_EXCEEDED",
          message |-> <<"Salesforce API daily limit exceeded.">>,
          details |-> GetStatus(c, l, p)]
    ELSE IF IsWarning(c, l, p)
    THEN [kind |-> "warning", code |-> "RATE_LIMIT_WARNING",
          message |-> <<"API usage at", UsagePercentWhole(c, l), "% of daily limit.">>,
          details |-> GetStatus(c, l, p)]
    ELSE [kind |-> "none", code |-> None, message |-> <<>>, details |-> NoDetails]

NotRun == [kind |-> "not_run", code |-> None, message |-> <<>>, details |-> NoDetails]

---------------------------------------------------------------------------
(* The write guard and the order of the steps of an operation *)

\* A guard that never asks.
GuardNever(call) == FALSE

\* A guard that remembers what it asked: it lets a write through only when
\* the same request was answered with the confirmation signal before.
GuardRemembers(call) == ~call.confirmed \/ Request(call) \notin asked

\* `if not confirmed: raise WriteBackConfirmationError(...)`
GuardRaises(call) == ~call.confirmed

\* The guard applied to every operation, reads included.
PrecheckGuardsReads(call, c, l, p) ==
    IF GuardRaises(call) THEN "confirm"
    ELSE IF CheckRateLimit(c, l, p).kind = "raise" THEN "exceeded"
    ELSE "proceed"

\* The steps in the other order: rate-limit check first, then the guard.
PrecheckRateFirst(call, c, l, p) ==
    IF CheckRateLimit(c, l, p).kind = "raise" THEN "exceeded"
    ELSE IF call.op \in WriteOps /\ GuardRaises(call) THEN "confirm"
    ELSE "proceed"

\* Where a call stops before the backend: at the guard ("confirm"), at the
\* rate-limit check ("exceeded"), or not at all ("proceed").
Precheck(call, c, l, p) ==
    IF call.op \in WriteOps /\ GuardRaises(call) THEN "confirm"
    ELSE IF CheckRateLimit(c, l, p).kind = "raise" THEN "exceeded"
    ELSE "proceed"

---------------------------------------------------------------------------
(* State after construction: SalesforceClient.__init__ builds a fresh      *)
(* ApiUsageTracker.  The tracker's daily_limit and warning_threshold are   *)
(* dataclass fields (defaults 100_000 and 0.80) that the unit tests set to *)
(* small values; they are drawn here from small sets.                      *)

\* Nothing is being examined on its own.
NoProbe == [kind |-> "none"]

NoLast == [call |-> NoCall, check |-> NotRun, backend |-> Success, sent |-> FALSE,
           result |-> Returned(NoCall)]

Init ==
    /\ daily_limit \in Limits
    /\ warning_pct \in WarningPcts
    /\ calls_made = 0
    /\ dispatched = 0
    /\ asked = {}
    /\ last = NoLast
    /\ pc = [t \in Threads |-> "idle"]
    /\ tmp = [t \in Threads |-> 0]
    /\ tcall = [t \in Threads |-> NoCall]
    /\ probe = NoProbe

\* The history variable keeps the requests of TrackedRequests only.
Track(call) == {Request(call)} \cap TrackedRequests

\* One whole client operation, in the order of the code: guard (writes
\* only), _check_rate_limit, record_call, backend call, error translation.
\* `outcome` is what the backend does if the call reaches it.
Handle(call, outcome) ==
    LET pre == Precheck(call, calls_made, daily_limit, warning_pct)
        chk == CheckRateLimit(calls_made, daily_limit, warning_pct)
    IN  /\ pre # "proceed" => outcome = Success
        /\ calls_made' = IF pre = "proceed" THEN RecordCall(calls_made) ELSE calls_made
        /\ dispatched' = IF pre = "proceed" THEN dispatched + 1 ELSE dispatched
        /\ asked' = IF pre = "confirm" THEN asked \cup Track(call) ELSE asked
        /\ last' = [call    |-> call,
                    check   |-> IF pre = "confirm" THEN NotRun ELSE chk,
                    sent    |-> pre = "proceed",
                    backend |-> outcome,
                    result  |-> CASE pre = "confirm" -> WriteBackConfirmationError(call)
                                  [] pre = "exceeded" ->
                                       ClientError(chk.code, chk.message, chk.details)
                                  [] OTHER -> IF outcome.ok THEN Returned(call)
                                              ELSE Translate(call, outcome.msg)]
        /\ UNCHANGED <<daily_limit, warning_pct, pc, tmp, tcall, probe>>

Query ==
    \E call \in QueryCalls, outcome \in BackendOutcomes :
        /\ call.op = "query"
        /\ Handle(call, outcome)

QueryAll ==
    \E call \in QueryCalls, outcome \in BackendOutcomes :
        /\ call.op = "query_all"
        /\ Handle(call, outcome)

Search ==
    \E call \in QueryCalls, outcome \in BackendOutcomes :
        /\ call.op = "search"
        /\ Handle(call, outcome)

CreateRecord ==
    \E call \in CreateCalls, outcome \in BackendOutcomes :
        /\ call.op = "create_record"
        /\ Handle(call, outcome)

UpdateRecord ==
    \E call \in UpdateCalls, outcome \in BackendOutcomes :
        /\ call.op = "update_record"
        /\ Handle(call, outcome)

GetRecord ==
    \E call \in GetCalls, outcome \in BackendOutcomes :
        /\ call.op = "get_record"
        /\ Handle(call, outcome)

Next == Query \/ QueryAll \/ Search \/ CreateRecord \/ UpdateRecord \/ GetRecord

Spec == Init /\ [][Next]_vars

---------------------------------------------------------------------------
(* A server session: every tool invocation obtains its client from         *)
(* _get_sf_client(), which constructs a new SalesforceClient, and with it  *)
(* a new ApiUsageTracker with the default fields, on every call.  The      *)
(* credentials are present and the same for the whole session.             *)

GetSfClient ==
    /\ dispatched < MaxSessionCalls
    /\ daily_limit' = DefaultDailyLimit
    /\ warning_pct' = DefaultWarningPct
    /\ calls_made' = 0
    /\ asked' = {}
    /\ last' = NoLast
    /\ UNCHANGED <<dispatched, pc, tmp, tcall, probe>>

InitTools ==
    /\ Init
    /\ daily_limit = DefaultDailyLimit
    /\ warning_pct = DefaultWarningPct

NextTools == GetSfClient \/ Next

SpecTools == InitTools /\ [][NextTools]_vars

---------------------------------------------------------------------------
(* Concurrent use of one client by several threads.  The client holds no   *)
(* lock, so an operation is a sequence of separately scheduled steps: the  *)
(* guard and _check_rate_limit (one read of the tracker), the load and the *)
(* store of `self.calls_made += 1`, and the backend call.                  *)

ConcCalls ==
    {MkCall("query", None, None, None, "q1", FALSE),
     MkCall("get_record", "Case", "500A", None, None, FALSE),
     MkCall("create_record", "Task", None, "d1", None, TRUE),
     MkCall("create_record", "Task", None, "d1", None, FALSE),
     MkCall("update_record", "Case", "500A", "d2", None, TRUE)}

\* Guard and rate-limit check of thread t's next call.  A call that raises
\* here ends at once.
TCheck(t) ==
    /\ pc[t] = "idle"
    /\ \E call \in ConcCalls :
         LET pre == Precheck(call, calls_made, daily_limit, warning_pct)
         IN  /\ pc' = [pc EXCEPT ![t] = IF pre = "proceed" THEN "checked" ELSE "idle"]
             /\ tcall' = [tcall EXCEPT ![t] = IF pre = "proceed" THEN call ELSE NoCall]
             /\ asked' = IF pre = "confirm" THEN asked \cup Track(call) ELSE asked
    /\ UNCHANGED <<daily_limit, warning_pct, calls_made, dispatched, last, tmp, probe>>

\* record_call, first half: read self.calls_made.
TLoad(t) ==
    /\ pc[t] = "checked"
    /\ tmp' = [tmp EXCEPT ![t] = calls_made]
    /\ pc' = [pc EXCEPT ![t] = "loaded"]
    /\ UNCHANGED <<daily_limit, warning_pct, calls_made, dispatched, asked, last, tcall, probe>>

\* record_call, second half: write self.calls_made.
TStore(t) ==
    /\ pc[t] = "loaded"
    /\ calls_made' = RecordCall(tmp[t])
    /\ tmp' = [tmp EXCEPT ![t] = 0]
    /\ pc' = [pc EXCEPT ![t] = "recorded"]
    /\ UNCHANGED <<daily_limit, warning_pct, dispatched, asked, last, tcall, probe>>

\* The backend call and the return (or the translated error).
TDispatch(t) ==
    /\ pc[t] = "recorded"
    /\ dispatched' = dispatched + 1
    /\ pc' = [pc EXCEPT ![t] = "idle"]
    /\ tcall' = [tcall EXCEPT ![t] = NoCall]
    /\ UNCHANGED <<daily_limit, warning_pct, calls_made, asked, last, tmp, probe>>

NextConc == \E t \in Threads : TCheck(t) \/ TLoad(t) \/ TStore(t) \/ TDispatch(t)

SpecConc == Init /\ [][NextConc]_vars

----------------------------------------------------------------------------
(* ApiUsageTracker on its own: a fresh tracker and a run of record_call()s *)

MaxTrackerLimit == 10
MaxTrackerCalls == 12

TrackerLimits == 0 .. MaxTrackerLimit
TrackerPcts == {25, 50, 80, 100}

\* What the properties and get_status() of the tracker show after n calls.
Observe(n, c, l, p) == [kind |-> "tracker", n |-> n, status |-> GetStatus(c, l, p)]

InitTracker ==
    /\ daily_limit \in TrackerLimits
    /\ warning_pct \in TrackerPcts
    /\ calls_made = 0
    /\ dispatched = 0
    /\ asked = {}
    /\ last = NoLast
    /\ pc = [t \in Threads |-> "idle"]
    /\ tmp = [t \in Threads |-> 0]
    /\ tcall = [t \in Threads |-> NoCall]
    /\ probe = Observe(0, 0, daily_limit, warning_pct)

TrackerRecordCall ==
    /\ probe.n < MaxTrackerCalls
    /\ calls_made' = RecordCall(calls_made)
    /\ probe' = Observe(probe.n + 1, calls_made', daily_limit, warning_pct)
    /\ UNCHANGED <<daily_limit, warning_pct, dispatched, asked, last, pc, tmp, tcall>>

NextTracker == TrackerRecordCall

SpecTracker == InitTracker /\ [][NextTracker]_vars

----------------------------------------------------------------------------
(* Records returned by the backend and the metadata stripping of the read  *)
(* operations.  A dict is a function from its keys to tagged values: a     *)
(* scalar, a dict, or a list of values.                                    *)

MaxListLen == 2

Meta == "attributes"

S == [t |-> "s"]
D(f) == [t |-> "d", v |-> f]
L(q) == [t |-> "l", v |-> q]

EmptyDict == [k \in {} |-> S]
Clean0 == "Name" :> S
WithMeta(f) == (Meta :> D("type" :> S)) @@ f
MetaOpt(F) == F \cup {WithMeta(f) : f \in F}

\* Objects without children, as the backend returns them and as they are
\* without their metadata.
Leaves == MetaOpt({Clean0})

\* A related object (Owner): it may hold a further related object or the
\* records of a sub-query.
Nested ==
    MetaOpt({Clean0}
            \cup {Clean0 @@ ("Manager" :> D(o)) : o \in Leaves}
            \cup {Clean0 @@ ("records" :> L(<<D(o)>>)) : o \in Leaves})

\* Elements of a list-valued field.
Items ==
    {S} \cup {D(o) : o \in Leaves}
        \cup {D(o) : o \in MetaOpt({Clean0 @@ ("Manager" :> D(WithMeta(Clean0)))})}

Lists == UNION {[1 .. n -> Items] : n \in 0 .. MaxListLen}

BackendRecords ==
    MetaOpt({Clean0 @@ o @@ c :
                o \in {EmptyDict} \cup {"Owner" :> D(n) : n \in Nested},
                c \in {EmptyDict} \cup {"Contacts" :> L(q) : q \in Lists}})

\* dict.pop("attributes", None)
Pop(f) == [k \in DOMAIN f \ {Meta} |-> f[k]]

\* if isinstance(item, dict): item.pop("attributes", None)
PopValue(x) == IF x.t = "d" THEN D(Pop(x.v)) ELSE x

\* The body of query's loop over record.items().
StripNested(x) ==
    IF x.t = "d" THEN D(Pop(x.v))
    ELSE IF x.t = "l" THEN L([i \in DOMAIN x.v |-> PopValue(x.v[i])])
    ELSE x

\* A loop over record.items() that cleans only the first element of a list.
NormalizeQueryFirstItem(rec) ==
    LET top == Pop(rec)
    IN  [k \in DOMAIN top |->
            IF top[k].t = "l"
            THEN L([i \in DOMAIN top[k].v |->
                        IF i = 1 THEN PopValue(top[k].v[i]) ELSE top[k].v[i]])
            ELSE StripNested(top[k])]

NormalizeQuery(rec) ==
    LET top == Pop(rec)
    IN  [k \in DOMAIN top |-> StripNested(top[k])]

\* query_all, search and get_record pop the key from the record itself only.
Normalize(op, rec) == IF op = "query" THEN NormalizeQuery(rec) ELSE Pop(rec)

InitNorm ==
    /\ daily_limit = DefaultDailyLimit
    /\ warning_pct = DefaultWarningPct
    /\ calls_made = 0
    /\ dispatched = 0
    /\ asked = {}
    /\ last = NoLast
    /\ pc = [t \in Threads |-> "idle"]
    /\ tmp = [t \in Threads |-> 0]
    /\ tcall = [t \in Threads |-> NoCall]
    /\ \E rec \in BackendRecords :
          probe = [kind |-> "norm", op |-> None, given |-> rec, out |-> rec,
                   prev |-> rec, pass |-> 0]

\* A read operation whose backend call succeeds and returns probe.given.
Read(op) ==
    /\ CheckRateLimit(calls_made, daily_limit, warning_pct).kind # "raise"
    /\ calls_made' = RecordCall(calls_made)
    /\ dispatched' = dispatched + 1
    /\ probe' = [probe EXCEPT !.op = op, !.out = Normalize(op, probe.given), !.pass = 1]
    /\ UNCHANGED <<daily_limit, warning_pct, asked, last, pc, tmp, tcall>>

NormQuery ==
    /\ probe.pass = 0
    /\ Read("query")

NormQueryAll ==
    /\ probe.pass = 0
    /\ Read("query_all")

NormSearch ==
    /\ probe.pass = 0
    /\ Read("search")

NormGetRecord ==
    /\ probe.pass = 0
    /\ Read("get_record")

\* The stripping loop of query run once more over records it has returned.
Renormalize ==
    /\ probe.op = "query"
    /\ probe.pass = 1
    /\ probe' = [probe EXCEPT !.prev = probe.out, !.out = NormalizeQuery(probe.out), !.pass = 2]
    /\ UNCHANGED <<daily_limit, warning_pct, calls_made, dispatched, asked, last, pc, tmp, tcall>>

NextNorm == NormQuery \/ NormQueryAll \/ NormSearch \/ NormGetRecord \/ Renormalize

SpecNorm == InitNorm /\ [][NextNorm]_vars

----------------------------------------------------------------------------
(* Tools of the CRM server.  A tool invocation imports the tool's module,  *)
(* obtains a new client from _get_sf_client() and runs the tool's body;    *)
(* what reaches the transport is the returned payload or the exception.    *)

MaxMatches == 2

\* Names defined by shared/salesforce_client.py.
Exports ==
    {"ApiUsageTracker", "SalesforceClientError", "WriteBackConfirmationError",
     "SalesforceClient"}

\* Names each tool module takes from shared.salesforce_client.
Imports(module) ==
    CASE module = "accounts" -> {"SalesforceClientError"}
      [] module = "contacts" -> {"SalesforceClientError"}
      [] module = "articles" -> {"SalesforceClientError"}
      [] module = "activities" -> {"SalesforceClientError", "WriteBackConfirmationRequired"}
      [] module = "leads" -> {"SalesforceClientError", "WriteBackConfirmationRequired"}
      [] module = "cases" -> {"SalesforceClientError", "WriteBackConfirmationError"}

\* `from shared.salesforce_client import ...` succeeds.
Importable(module) == Imports(module) \subseteq Exports

Envs == {"set", "missing"}
Constructions == {"ok", "SalesforceError"}
Subjects == {"Call Acme"}

Raised(exc) == [kind |-> "raise", exc |-> exc, payload |-> NoDetails]
Payload(p) == [kind |-> "return", exc |-> None, payload |-> p]

\* SalesforceClientError.to_error_response()
ToErrorResponse(e) ==
    IF e.details = NoDetails
    THEN [error |-> [code |-> e.code, message |-> e.message]]
    ELSE [error |-> [code |-> e.code, message |-> e.message, details |-> e.details]]

\* ErrorResponse(code=..., message=...).model_dump()
ErrorResponse(code, message) == [code |-> code, message |-> message, details |-> None]

\* One operation on the client of a tool run: its result and the counter
\* after it.
ClientCall(call, c, outcome) ==
    LET pre == Precheck(call, c, DefaultDailyLimit, DefaultWarningPct)
        chk == CheckRateLimit(c, DefaultDailyLimit, DefaultWarningPct)
    IN  [result |-> CASE pre = "confirm" -> WriteBackConfirmationError(call)
                      [] pre = "exceeded" -> ClientError(chk.code, chk.message, chk.details)
                      [] OTHER -> IF outcome.ok THEN Returned(call)
                                  ELSE Translate(call, outcome.msg),
         calls_made |-> IF pre = "proceed" THEN RecordCall(c) ELSE c]

\* Outcome of a tool body that called _get_sf_client(): what leaves the
\* tool and the number of backend calls made.
Ran(out, calls) == [out |-> out, calls |-> calls, client |-> TRUE]

\* An early return placed after the call of _get_sf_client().
EarlyWithClient(out) == Ran(out, 0)

\* Outcome of a tool invocation that ended before _get_sf_client() was called.
Early(out) == [out |-> out, calls |-> 0, client |-> FALSE]

\* _get_sf_client() inside the try block of a tool: the exception that
\* leaves it, or "ok".
NoClient(env, construct) ==
    IF env = "missing" THEN Ran(Raised("RuntimeError"), 0)
    ELSE Ran(Payload(ToErrorResponse(
                 ClientError("AUTH_ERROR", <<"Failed to connect to Salesforce">>, NoDetails))), 0)

HasClient(env, construct) == env = "set" /\ construct = "ok"

Proceed == <<"Call again with confirmed=true to proceed.">>

\* get_account: sel tells which argument was given, found is the number of
\* records a successful query returns.
GetAccountBody(sel, found, env, construct, o1) ==
    IF sel = "none"
    THEN Early(Payload(ErrorResponse("INVALID_INPUT",
                                     <<"Either account_id or account_name is required.">>)))
    ELSE IF ~HasClient(env, construct) THEN NoClient(env, construct)
    ELSE LET r == ClientCall(MkCall("query", None, None, None, sel, FALSE), 0, o1)
         IN  IF r.result.kind = "error"
             THEN Ran(Payload(ToErrorResponse(r.result)), r.calls_made)
             ELSE IF found = 0
             THEN Ran(Payload(ErrorResponse("NOT_FOUND", <<"Account not found", sel>>)),
                      r.calls_made)
             ELSE IF sel = "id" \/ found = 1
             THEN Ran(Payload([account |-> "account", match_count |-> 1, matches |-> <<>>]),
                      r.calls_made)
             ELSE Ran(Payload([account |-> None, match_count |-> found,
                               matches |-> [i \in 1 .. found |-> "id+name"]]),
                      r.calls_made)

\* get_case: sel tells which identifier was given, found is the number of
\* records the first query returns; the second query fetches the comments
\* and its client errors are swallowed.
GetCaseBody(sel, found, env, construct, o1, o2) ==
    IF sel = "none"
    THEN Early(Payload(ErrorResponse("INVALID_INPUT",
                                     <<"Either case_id or case_number is required.">>)))
    ELSE IF ~HasClient(env, construct) THEN NoClient(env, construct)
    ELSE LET r1 == ClientCall(MkCall("query", None, None, None, sel, FALSE), 0, o1)
             r2 == ClientCall(MkCall("query", None, None, None, "comments", FALSE),
                              r1.calls_made, o2)
         IN  IF r1.result.kind = "error"
             THEN Ran(Payload(ToErrorResponse(r1.result)), r1.calls_made)
             ELSE IF found = 0
             THEN Ran(Payload(ErrorResponse("NOT_FOUND", <<"Case not found", sel>>)),
                      r1.calls_made)
             ELSE Ran(Payload([case |-> [id |-> "case",
                                         recent_comments |->
                                             IF r2.result.kind = "ok" THEN "comments"
                                             ELSE "[]"]]),
                      r2.calls_made)

\* limit = max(1, min(50, limit))
ClampLimit(limit) ==
    LET capped == IF limit < 50 THEN limit ELSE 50
    IN  IF capped > 1 THEN capped ELSE 1

\* The backend answers every call with REQUEST_LIMIT_EXCEEDED.
OrgLimitReached == [ok |-> FALSE, msg |-> {"REQUEST_LIMIT_EXCEEDED"}]

\* get_recent_activities: the task query returns n1 records and the event
\* query, made when the limit is not yet filled, n2; a client error of
\* either query is swallowed.
GetRecentActivitiesBody(limit, n1, n2, env, construct, o1, o2) ==
    IF ~HasClient(env, construct) THEN NoClient(env, construct)
    ELSE LET r1 == ClientCall(MkCall("query", None, None, None, "tasks", FALSE), 0, o1)
             tasks == IF r1.result.kind = "ok" THEN n1 ELSE 0
             remaining == ClampLimit(limit) - tasks
             r2 == IF remaining > 0
                   THEN ClientCall(MkCall("query", None, None, None, "events", FALSE),
                                   r1.calls_made, o2)
                   ELSE r1
             events == IF remaining > 0 /\ r2.result.kind = "ok" THEN n2 ELSE 0
             total == tasks + events
         IN  Ran(Payload([activities |-> IF total < ClampLimit(limit) THEN total
                                         ELSE ClampLimit(limit),
                          total_count |-> total]),
                 r2.calls_made)

\* get_contacts_for_account: the contact query returns n records; the role
\* query is made when there are contacts and its client errors are
\* swallowed.
GetContactsForAccountBody(n, env, construct, o1, o2) ==
    IF ~HasClient(env, construct) THEN NoClient(env, construct)
    ELSE LET r1 == ClientCall(MkCall("query", None, None, None, "contacts", FALSE), 0, o1)
             r2 == IF n > 0
                   THEN ClientCall(MkCall("query", None, None, None, "roles", FALSE),
                                   r1.calls_made, o2)
                   ELSE r1
         IN  IF r1.result.kind = "error"
             THEN Ran(Payload(ToErrorResponse(r1.result)), r1.calls_made)
             ELSE Ran(Payload([contacts |-> n, total_count |-> n,
                               roles |-> n > 0 /\ r2.result.kind = "ok"]),
                      r2.calls_made)

CreateTaskBody(subject, confirmed, env, construct, o1) ==
    IF ~HasClient(env, construct) THEN NoClient(env, construct)
    ELSE LET r == ClientCall(MkCall("create_record", "Task", None, subject, None, confirmed), 0, o1)
         IN  CASE r.result.kind = "ok" ->
                    Ran(Payload([task_id |-> "id", success |-> TRUE,
                                 message |-> <<"Task", subject, "created successfully.">>]),
                        r.calls_made)
               [] r.result.kind = "confirm" ->
                    Ran(Payload([task_id |-> None, success |-> FALSE,
                                 message |-> <<"Please confirm: Create task", subject>> \o Proceed]),
                        r.calls_made)
               [] OTHER -> Ran(Payload(ToErrorResponse(r.result)), r.calls_made)

UpdateLeadStatusBody(lead_id, confirmed, env, construct, o1) ==
    IF ~HasClient(env, construct) THEN NoClient(env, construct)
    ELSE LET r == ClientCall(MkCall("update_record", "Lead", lead_id, "Status", None, confirmed), 0, o1)
         IN  CASE r.result.kind = "ok" ->
                    Ran(Payload([success |-> TRUE,
                                 message |-> <<"Lead", lead_id, "status updated">>,
                                 updated_fields |-> <<"Status">>]),
                        r.calls_made)
               [] r.result.kind = "confirm" ->
                    Ran(Payload([success |-> FALSE,
                                 message |-> <<"Please confirm: Update lead", lead_id>> \o Proceed,
                                 updated_fields |-> <<>>]),
                        r.calls_made)
               [] OTHER -> Ran(Payload(ToErrorResponse(r.result)), r.calls_made)

CreateCaseBody(subject, confirmed, env, construct, o1) ==
    IF ~HasClient(env, construct) THEN NoClient(env, construct)
    ELSE LET r == ClientCall(MkCall("create_record", "Case", None, subject, None, confirmed), 0, o1)
         IN  CASE r.result.kind = "ok" ->
                    Ran(Payload([case_id |-> "id", case_number |-> "", success |-> TRUE,
                                 message |-> <<"Case", subject, "created successfully.">>]),
                        r.calls_made)
               [] r.result.kind = "confirm" ->
                    Ran(Payload([case_id |-> None, case_number |-> None, success |-> FALSE,
                                 message |-> <<"Please confirm: Create case with subject", subject>>
                                             \o Proceed]),
                        r.calls_made)
               [] OTHER -> Ran(Payload(ToErrorResponse(r.result)), r.calls_made)

\* update_case: fields tells whether a field to update was given, comment
\* whether a comment was given.
UpdateCaseBody(case_id, fields, comment, confirmed, env, construct, o1, o2) ==
    IF ~fields /\ ~comment
    THEN Early(Payload(ErrorResponse(
                   "INVALID_INPUT",
                   <<"At least one field to update or a comment is required.">>)))
    ELSE IF ~HasClient(env, construct) THEN NoClient(env, construct)
    ELSE LET skipped == [result |-> [kind |-> "ok"], calls_made |-> 0]
             r1 == IF fields
                   THEN ClientCall(MkCall("update_record", "Case", case_id, "update_data", None,
                                          confirmed), 0, o1)
                   ELSE skipped
             r2 == IF comment /\ r1.result.kind = "ok"
                   THEN ClientCall(MkCall("create_record", "CaseComment", None, "comment", None,
                                          confirmed), r1.calls_made, o2)
                   ELSE r1
         IN  CASE r2.result.kind = "ok" ->
                    Ran(Payload([success |-> TRUE,
                                 message |-> <<"Case", case_id, "updated successfully.">>,
                                 updated_fields |->
                                     (IF fields THEN <<"fields">> ELSE <<>>)
                                     \o (IF comment THEN <<"Comment">> ELSE <<>>)]),
                        r2.calls_made)
               [] r2.result.kind = "confirm" ->
                    Ran(Payload([success |-> FALSE,
                                 message |-> <<"Please confirm: Update case", case_id>> \o Proceed,
                                 updated_fields |-> <<>>]),
                        r2.calls_made)
               [] OTHER -> Ran(Payload(ToErrorResponse(r2.result)), r2.calls_made)

\* The inputs that can make a difference: without credentials nothing is
\* constructed, and without a client the backend is not called.
Relevant(env, construct, o1, o2) ==
    /\ env = "missing" => construct = "ok"
    /\ ~HasClient(env, construct) => o1 = Success /\ o2 = Success

\* A tool invocation: the import of the tool's module, then the body on a
\* new client.
Invoke(tool, module, args, env, construct, run) ==
    LET r == IF Importable(module) THEN run ELSE Early(Raised("ImportError"))
    IN  /\ dispatched' = dispatched + r.calls
        /\ calls_made' = IF r.client THEN r.calls ELSE calls_made
        /\ daily_limit' = IF r.client THEN DefaultDailyLimit ELSE daily_limit
        /\ warning_pct' = IF r.client THEN DefaultWarningPct ELSE warning_pct
        /\ probe' = [kind |-> "tool", tool |-> tool, args |-> args, env |-> env,
                     construct |-> construct, out |-> r.out, calls |-> r.calls,
                     client |-> r.client]
        /\ UNCHANGED <<asked, last, pc, tmp, tcall>>

GetAccount ==
    \E sel \in {"none", "id", "name"}, found \in 0 .. MaxMatches, env \in Envs,
       construct \in Constructions, o1 \in BackendOutcomes :
        /\ dispatched < MaxSessionCalls
        /\ Invoke("get_account", "accounts", [sel |-> sel, found |-> found], env, construct,
                  GetAccountBody(sel, found, env, construct, o1))

GetCase ==
    \E sel \in {"none", "id", "number"}, found \in 0 .. 1, env \in Envs,
       construct \in Constructions, o1 \in BackendOutcomes, o2 \in BackendOutcomes :
        /\ dispatched < MaxSessionCalls
        /\ Relevant(env, construct, o1, o2)
        /\ (sel = "none" \/ found = 0) => o2 = Success
        /\ Invoke("get_case", "cases",
                  [sel |-> sel, found |-> found], env, construct,
                  GetCaseBody(sel, found, env, construct, o1, o2))

GetRecentActivities ==
    \E limit \in 0 .. MaxMatches, n1 \in 0 .. MaxMatches, n2 \in 0 .. 1, env \in Envs,
       construct \in Constructions, o1 \in BackendOutcomes, o2 \in BackendOutcomes :
        /\ dispatched < MaxSessionCalls
        /\ Relevant(env, construct, o1, o2)
        /\ ~o1.ok => n1 = 0
        /\ ~o2.ok => n2 = 0
        /\ Invoke("get_recent_activities", "activities",
                  [limit |-> limit,
                   limited |-> o1 = OrgLimitReached /\ o2 = OrgLimitReached],
                  env, construct,
                  GetRecentActivitiesBody(limit, n1, n2, env, construct, o1, o2))

GetContactsForAccount ==
    \E n \in 0 .. MaxMatches, env \in Envs,
       construct \in Constructions, o1 \in BackendOutcomes, o2 \in BackendOutcomes :
        /\ dispatched < MaxSessionCalls
        /\ Relevant(env, construct, o1, o2)
        /\ (n = 0 \/ ~o1.ok) => o2 \in {Success, OrgLimitReached}
        /\ Invoke("get_contacts_for_account", "contacts",
                  [limited |-> o1 = OrgLimitReached /\ o2 = OrgLimitReached],
                  env, construct,
                  GetContactsForAccountBody(n, env, construct, o1, o2))

CreateTask ==
    \E subject \in Subjects, confirmed \in BOOLEAN, env \in Envs,
       construct \in Constructions, o1 \in BackendOutcomes :
        /\ dispatched < MaxSessionCalls
        /\ Invoke("create_task", "activities", [subject |-> subject, confirmed |-> confirmed],
                  env, construct, CreateTaskBody(subject, confirmed, env, construct, o1))

UpdateLeadStatus ==
    \E lead_id \in RecordIds, confirmed \in BOOLEAN, env \in Envs,
       construct \in Constructions, o1 \in BackendOutcomes :
        /\ dispatched < MaxSessionCalls
        /\ Invoke("update_lead_status", "leads", [lead_id |-> lead_id, confirmed |-> confirmed],
                  env, construct, UpdateLeadStatusBody(lead_id, confirmed, env, construct, o1))

CreateCase ==
    \E subject \in Subjects, confirmed \in BOOLEAN, env \in Envs,
       construct \in Constructions, o1 \in BackendOutcomes :
        /\ dispatched < MaxSessionCalls
        /\ Invoke("create_case", "cases", [subject |-> subject, confirmed |-> confirmed],
                  env, construct, CreateCaseBody(subject, confirmed, env, construct, o1))

UpdateCase ==
    \E case_id \in RecordIds, fields \in BOOLEAN, comment \in BOOLEAN, confirmed \in BOOLEAN,
       env \in Envs, construct \in Constructions, o1 \in BackendOutcomes,
       o2 \in BackendOutcomes :
        /\ dispatched < MaxSessionCalls
        /\ Relevant(env, construct, o1, o2)
        /\ ~fields => o1 = Success
        /\ ~comment => o2 = Success
        /\ Invoke("update_case", "cases",
                  [case_id |-> case_id, fields |-> fields, comment |-> comment,
                   confirmed |-> confirmed],
                  env, construct,
                  UpdateCaseBody(case_id, fields, comment, confirmed, env, construct, o1, o2))

NextCrm ==
    GetAccount \/ GetCase \/ GetRecentActivities \/ GetContactsForAccount \/ CreateTask \/ UpdateLeadStatus \/ CreateCase \/ UpdateCase

SpecCrm == InitTools /\ [][NextCrm]_vars

----------------------------------------------------------------------------
(* Tools of the Knowledge server *)

\* Backend outcomes, with an error text that names the Knowledge objects.
KnowledgeOutcomes == BackendOutcomes \cup {[ok |-> FALSE, msg |-> {"Knowledge"}]}

\* "Knowledge" in e.message: the text of the backend error is quoted in the
\* messages of AUTH_ERROR and SF_API_ERROR only.
MentionsKnowledge(e, outcome) ==
    /\ e.code \in {"AUTH_ERROR", "SF_API_ERROR"}
    /\ "Knowledge" \in outcome.msg

KnowledgeDisabled ==
    ErrorResponse("KNOWLEDGE_DISABLED",
                  <<"Salesforce Knowledge is not enabled or accessible.">>)

\* A search_articles that gives up when the SOSL search fails.
SearchArticlesNoFallback(n, env, construct, o1, o2) ==
    IF ~HasClient(env, construct) THEN NoClient(env, construct)
    ELSE LET r1 == ClientCall(MkCall("search", None, None, None, "sosl", FALSE), 0, o1)
         IN  IF r1.result.kind = "ok"
             THEN Ran(Payload([articles |-> n, total_count |-> n, search_method |-> "sosl"]),
                      r1.calls_made)
             ELSE Ran(Payload(ToErrorResponse(r1.result)), r1.calls_made)

\* search_articles: n is the number of records the successful search or
\* query returns.
SearchArticlesBody(n, env, construct, o1, o2) ==
    IF ~HasClient(env, construct) THEN NoClient(env, construct)
    ELSE LET r1 == ClientCall(MkCall("search", None, None, None, "sosl", FALSE), 0, o1)
             r2 == ClientCall(MkCall("query", None, None, None, "soql", FALSE),
                              r1.calls_made, o2)
         IN  IF r1.result.kind = "ok"
             THEN Ran(Payload([articles |-> n, total_count |-> n, search_method |-> "sosl"]),
                      r1.calls_made)
             ELSE IF r2.result.kind = "ok"
             THEN Ran(Payload([articles |-> n, total_count |-> n, search_method |-> "soql"]),
                      r2.calls_made)
             ELSE IF MentionsKnowledge(r2.result, o2)
             THEN Ran(Payload(KnowledgeDisabled), r2.calls_made)
             ELSE Ran(Payload(ToErrorResponse(r2.result)), r2.calls_made)

GetArticleByIdBody(found, env, construct, o1) ==
    IF ~HasClient(env, construct) THEN NoClient(env, construct)
    ELSE LET r == ClientCall(MkCall("query", None, None, None, "article", FALSE), 0, o1)
         IN  IF r.result.kind = "error"
             THEN IF MentionsKnowledge(r.result, o1)
                  THEN Ran(Payload(KnowledgeDisabled), r.calls_made)
                  ELSE Ran(Payload(ToErrorResponse(r.result)), r.calls_made)
             ELSE IF found = 0
             THEN Ran(Payload(ErrorResponse("NOT_FOUND", <<"Knowledge article not found">>)),
                      r.calls_made)
             ELSE Ran(Payload([article |-> "article"]), r.calls_made)

SearchArticles ==
    \E n \in 0 .. MaxMatches, env \in Envs, construct \in Constructions,
       o1 \in KnowledgeOutcomes, o2 \in KnowledgeOutcomes :
        /\ dispatched < MaxSessionCalls
        /\ Relevant(env, construct, o1, o2)
        /\ Invoke("search_articles", "articles",
                  [sosl_ok |-> o1.ok, soql_ok |-> o2.ok], env, construct,
                  SearchArticlesBody(n, env, construct, o1, o2))

GetArticleById ==
    \E found \in 0 .. 1, env \in Envs, construct \in Constructions,
       o1 \in KnowledgeOutcomes :
        /\ dispatched < MaxSessionCalls
        /\ Relevant(env, construct, o1, Success)
        /\ Invoke("get_article_by_id", "articles", [found |-> found], env, construct,
                  GetArticleByIdBody(found, env, construct, o1))

NextKnowledge == SearchArticles \/ GetArticleById

SpecKnowledge == InitTools /\ [][NextKnowledge]_vars

----------------------------------------------------------------------------
(* The knowledge sync pipeline.  probe.file is the content of the state    *)
(* file: <<>> when the file does not exist, <<state>> otherwise.           *)

MaxSyncRuns == 3

\* last_sync_timestamp: None, or the time of a run.
NoTimestamp == <<>>
At(clock) == <<clock>>

\* SyncState()
NewSyncState == [last_sync_timestamp |-> NoTimestamp, total_synced |-> 0, errors |-> <<>>]

\* A state file written by an earlier sync.
EarlierSyncState == [last_sync_timestamp |-> At(0), total_synced |-> 1, errors |-> <<>>]

\* _load_sync_state
LoadSyncState(file) == IF file = <<>> THEN NewSyncState ELSE file[1]

\* What a run leaves behind: the state file, the SyncState returned or the
\* exception raised, and the number of backend calls.
Synced(file, out, calls) == [file |-> file, out |-> out, calls |-> calls]

\* results.get("records", []): query_all returns a list, and a list has no
\* attribute get.
ResultsHaveGet == FALSE

\* sync_knowledge_articles.  index_ready is the answer of
\* ensure_search_index, outcome that of the backend to query_all, fetched
\* the number of records and uploaded the number upload_documents reports.
SyncRun(file, full_sync, index_ready, construct, outcome, fetched, uploaded, clock) ==
    LET loaded == LoadSyncState(file)
        state == IF full_sync THEN [loaded EXCEPT !.last_sync_timestamp = NoTimestamp]
                 ELSE loaded
        failed(text) == [state EXCEPT !.errors = Append(@, text)]
        r == ClientCall(MkCall("query_all", None, None, None, "articles", FALSE), 0, outcome)
        done == [state EXCEPT !.total_synced = @ + uploaded,
                              !.last_sync_timestamp = At(clock)]
    IN  IF ~index_ready
        THEN Synced(<<failed("Failed to create/verify search index")>>,
                    Payload(failed("Failed to create/verify search index")), 0)
        ELSE IF construct # "ok"
        THEN Synced(file, Raised("SalesforceClientError"), 0)
        ELSE IF r.result.kind = "error"
        THEN Synced(<<failed("Salesforce query failed")>>,
                    Payload(failed("Salesforce query failed")), r.calls_made)
        ELSE IF ~ResultsHaveGet
        THEN Synced(file, Raised("AttributeError"), r.calls_made)
        ELSE IF fetched = 0
        THEN Synced(<<state>>, Payload(state), r.calls_made)
        ELSE Synced(<<done>>, Payload(done), r.calls_made)

InitSync ==
    /\ daily_limit = DefaultDailyLimit
    /\ warning_pct = DefaultWarningPct
    /\ calls_made = 0
    /\ dispatched = 0
    /\ asked = {}
    /\ last = NoLast
    /\ pc = [t \in Threads |-> "idle"]
    /\ tmp = [t \in Threads |-> 0]
    /\ tcall = [t \in Threads |-> NoCall]
    /\ \E file \in {<<>>, <<EarlierSyncState>>} :
          probe = [kind |-> "sync", file |-> file, before |-> file, clock |-> 0,
                   run |-> [full_sync |-> FALSE, index_ready |-> FALSE, query_ok |-> FALSE,
                            fetched |-> 0, uploaded |-> 0],
                   out |-> Payload(NewSyncState)]

SyncKnowledgeArticles ==
    \E full_sync \in BOOLEAN, index_ready \in BOOLEAN, construct \in Constructions,
       outcome \in {Success, [ok |-> FALSE, msg |-> {}]},
       fetched \in 0 .. MaxMatches, uploaded \in 0 .. MaxMatches :
        LET run == SyncRun(probe.file, full_sync, index_ready, construct, outcome,
                           fetched, uploaded, probe.clock + 1)
        IN  /\ probe.clock < MaxSyncRuns
            /\ uploaded <= fetched
            /\ ~index_ready => construct = "ok" /\ outcome = Success
            /\ (construct # "ok" \/ ~outcome.ok) => fetched = 0
            /\ calls_made' = run.calls
            /\ dispatched' = dispatched + run.calls
            /\ probe' = [kind |-> "sync", file |-> run.file, before |-> probe.file,
                         clock |-> probe.clock + 1,
                         run |-> [full_sync |-> full_sync, index_ready |-> index_ready,
                                  query_ok |-> construct = "ok" /\ outcome.ok,
                                  fetched |-> fetched, uploaded |-> uploaded],
                         out |-> run.out]
            /\ UNCHANGED <<daily_limit, warning_pct, asked, last, pc, tmp, tcall>>

NextSync == SyncKnowledgeArticles

SpecSync == InitSync /\ [][NextSync]_vars

----------------------------------------------------------------------------
(* query_all: the safety cap on the number of records returned *)

MaxBackendLen == 3
MaxResultsArg == 3

RecordKeys == {"a", "b"}

\* Records of a query_all result, told apart by their Id.
CapRecords == MetaOpt({"Id" :> x : x \in RecordKeys})

BackendLists == UNION {[1 .. n -> CapRecords] : n \in 0 .. MaxBackendLen}

\* A cap that keeps the last max_results records.
QueryAllCapLast(records, max_results) ==
    IF Len(records) > max_results
    THEN SubSeq(records, Len(records) - max_results + 1, Len(records))
    ELSE records

\* if len(records) > max_results: records = records[:max_results]
QueryAllCap(records, max_results) ==
    IF Len(records) > max_results THEN SubSeq(records, 1, max_results) ELSE records

\* What query_all returns for a backend result.
QueryAllResult(records, max_results) ==
    QueryAllCap([i \in 1 .. Len(records) |-> Pop(records[i])], max_results)

InitCap ==
    /\ daily_limit = DefaultDailyLimit
    /\ warning_pct = DefaultWarningPct
    /\ calls_made = 0
    /\ dispatched = 0
    /\ asked = {}
    /\ last = NoLast
    /\ pc = [t \in Threads |-> "idle"]
    /\ tmp = [t \in Threads |-> 0]
    /\ tcall = [t \in Threads |-> NoCall]
    /\ \E records \in BackendLists, max_results \in 0 .. MaxResultsArg :
          probe = [kind |-> "cap", given |-> records, max_results |-> max_results,
                   out |-> <<>>, pass |-> 0]

\* query_all whose backend call succeeds and returns probe.given.
QueryAllCapped ==
    /\ probe.pass = 0
    /\ CheckRateLimit(calls_made, daily_limit, warning_pct).kind # "raise"
    /\ calls_made' = RecordCall(calls_made)
    /\ dispatched' = dispatched + 1
    /\ probe' = [probe EXCEPT !.out = QueryAllResult(probe.given, probe.max_results),
                              !.pass = 1]
    /\ UNCHANGED <<daily_limit, warning_pct, asked, last, pc, tmp, tcall>>

NextCap == QueryAllCapped

SpecCap == InitCap /\ [][NextCap]_vars

---------------------------------------------------------------------------
(* Properties.  In a step of Spec, last' describes the call the step made, *)
(* and the unprimed variables are the client state the call found.         *)

\* The call reaches the rate-limit check: a read, or a write that passed the guard.
Checked(c) == c.op \in ReadOps \/ (c.op \in WriteOps /\ c.confirmed)

\* C1 (as stated): every write that reaches the backend was asked before: the
\* same request (object type, record id, payload) was submitted earlier with
\* confirmed=false and answered with the confirmation signal; a write whose
\* first submission is already confirmed does not reach the backend.
\* (Stated for the requests whose history is kept.)
C1_WriteWasAskedBefore ==
    (last.sent /\ last.call.op \in WriteOps /\ Request(last.call) \in TrackedRequests)
        => Request(last.call) \in asked

\* C1 (amended): a write reaches the backend only from a call that carries
\* confirmed=true; no earlier unconfirmed submission is needed: a confirmed
\* write never asked before reaches the backend whenever the quota is not
\* exceeded.
C1_WriteNeedsConfirmedFlagOnly ==
    [][LET c == last'.call
       IN  c.op \in WriteOps =>
             /\ last'.sent => c.confirmed
             /\ (c.confirmed /\ Request(c) \notin asked /\ calls_made < daily_limit)
                   => last'.sent]_vars

\* A confirmed write that was never asked before has reached the backend.
C1_Witness ==
    /\ last.sent
    /\ last.call.op \in WriteOps
    /\ last.call.confirmed
    /\ Request(last.call) \in TrackedRequests
    /\ Request(last.call) \notin asked

\* C2: create_record and update_record called with confirmed=false, in any
\* client state: no backend call, calls_made unchanged, and the signal
\* carries exactly the submitted object type, record id (update) and payload.
C2_UnconfirmedWriteIsEchoed ==
    [][LET c == last'.call
           r == last'.result
       IN  (c.op \in WriteOps /\ ~c.confirmed) =>
             /\ ~last'.sent
             /\ dispatched' = dispatched
             /\ calls_made' = calls_made
             /\ r.kind = "confirm"
             /\ DOMAIN r.details = IF c.op = "update_record"
                                   THEN {"object", "record_id", "data"}
                                   ELSE {"object", "data"}
             /\ r.details.object = c.sobject
             /\ r.details.data = c.data
             /\ c.op = "update_record" => r.details.record_id = c.record_id]_vars

\* An unconfirmed update was answered with the signal on a client whose quota
\* is used up.
C2_Witness ==
    /\ last.call.op = "update_record"
    /\ ~last.call.confirmed
    /\ last.result.kind = "confirm"
    /\ calls_made > 0
    /\ calls_made >= daily_limit

\* C3: create_record and update_record with confirmed=true while the quota is
\* not exceeded: the backend write is invoked exactly once and calls_made
\* increases by exactly 1.
C3_ConfirmedWriteCountsOnce ==
    [][LET c == last'.call
       IN  (c.op \in WriteOps /\ c.confirmed /\ calls_made < daily_limit) =>
             /\ last'.sent
             /\ dispatched' = dispatched + 1
             /\ calls_made' = calls_made + 1]_vars

\* A request was asked, then resubmitted confirmed, and the backend accepted it.
C3_Witness ==
    /\ last.call.op \in WriteOps
    /\ last.call.confirmed
    /\ Request(last.call) \in asked
    /\ last.sent
    /\ last.backend.ok
    /\ last.result.kind = "ok"

\* C4: whenever calls_made >= daily_limit, every read and every confirmed
\* write fails with RATE_LIMIT_EXCEEDED carrying the usage snapshot, no
\* backend call is made and calls_made is unchanged.
C4_ExceededRejectsLocally ==
    [][LET c == last'.call
           r == last'.result
       IN  (calls_made >= daily_limit /\ Checked(c)) =>
             /\ r.kind = "error"
             /\ r.code = "RATE_LIMIT_EXCEEDED"
             /\ r.details.calls_made = calls_made
             /\ r.details.daily_limit = daily_limit
             /\ r.details.is_exceeded
             /\ ~last'.sent
             /\ dispatched' = dispatched
             /\ calls_made' = calls_made]_vars

\* A read was rejected locally after the quota was used up by earlier calls.
C4_Witness ==
    /\ last.call.op \in ReadOps
    /\ last.result.kind = "error"
    /\ last.result.code = "RATE_LIMIT_EXCEEDED"
    /\ ~last.sent
    /\ calls_made > 0

C6_NeverPastLimit ==
    /\ [](calls_made <= daily_limit /\ dispatched <= daily_limit)
    /\ [][/\ calls_made = daily_limit =>
               calls_made' = calls_made /\ dispatched' = dispatched /\ ~last'.sent
          /\ calls_made < daily_limit => last'.check.kind # "raise"]_vars

\* The quota was used up to the limit and the next call was the one rejected.
C6_Witness ==
    /\ daily_limit >= 2
    /\ calls_made = daily_limit
    /\ dispatched = daily_limit
    /\ last.check.kind = "raise"
    /\ ~last.sent

\* C7: under concurrent use of one client the exceeded check and the
\* increment are one atomic step, so no interleaving pushes calls_made (or
\* the number of backend calls) past daily_limit.
C7_NoOvershoot == calls_made <= daily_limit /\ dispatched <= daily_limit

\* C8: over the tool invocations of one server session the usage counter
\* accumulates every backend call and is never reset, so the backend calls of
\* the session are bounded by daily_limit.
C8_SessionBounded == calls_made = dispatched /\ dispatched <= daily_limit

\* C9: the write guard keeps no state: whether a write is answered with the
\* confirmation signal depends only on the confirmed flag of the current
\* call, whatever was asked before; confirmed=true always goes on to the
\* rate-limit check, and to the backend unless that check raises.
C9_GuardStateless ==
    last.call.op \in WriteOps =>
        /\ (last.result.kind = "confirm") = (~last.call.confirmed)
        /\ last.call.confirmed =>
              /\ last.check.kind # "not_run"
              /\ last.sent = (last.check.kind # "raise")

\* A confirmed write went through although the guard had asked about another
\* request and never about this one.
C9_Witness ==
    /\ last.call.op \in WriteOps
    /\ last.call.confirmed
    /\ last.sent
    /\ asked # {}
    /\ Request(last.call) \in TrackedRequests \ asked

\* C10: in the warning band (usage_percent >= warning_threshold*100 and
\* calls_made < daily_limit) the rate-limit check returns a
\* RATE_LIMIT_WARNING payload instead of failing, and the operation is still
\* dispatched and counted.
C10_WarningDoesNotBlock ==
    [][LET c == last'.call
       IN  (/\ calls_made < daily_limit
            /\ calls_made * 100 >= warning_pct * daily_limit
            /\ Checked(c)) =>
             /\ last'.check.kind = "warning"
             /\ last'.check.code = "RATE_LIMIT_WARNING"
             /\ last'.check.details.calls_made = calls_made
             /\ last'.sent
             /\ dispatched' = dispatched + 1
             /\ calls_made' = calls_made + 1]_vars

\* A query was dispatched with the warning returned by the check.
C10_Witness ==
    /\ last.call.op = "query"
    /\ last.check.kind = "warning"
    /\ last.sent
    /\ calls_made < daily_limit

\* C11: when an operation is dispatched in the warning band, the
\* RATE_LIMIT_WARNING advisory returned by the rate-limit check is attached
\* to the successful result the caller receives.
C11_WarningAttached ==
    (last.sent /\ last.check.kind = "warning" /\ last.result.kind = "ok") =>
        /\ "warning" \in DOMAIN last.result.details
        /\ last.result.details.warning.code = "RATE_LIMIT_WARNING"

\* C13: on one client calls_made starts at 0, every operation changes it by
\* 0 or +1, and no operation changes daily_limit or warning_threshold.
C13_CounterMonotone ==
    /\ calls_made = 0
    /\ [][/\ calls_made' \in {calls_made, calls_made + 1}
          /\ daily_limit' = daily_limit
          /\ warning_pct' = warning_pct]_vars

\* The counter has counted several calls, one at a time.
C13_Witness ==
    /\ calls_made >= 2
    /\ dispatched = calls_made
    /\ last.sent

\* C14: calls_made increases by exactly 1 if and only if the call reached the
\* backend, whether the backend succeeded or raised; a call stopped by the
\* rate-limit check or by the guard leaves it unchanged.
C14_CountedIffDispatched ==
    [][LET short == last'.result.kind = "confirm" \/ last'.check.kind = "raise"
       IN  /\ dispatched' \in {dispatched, dispatched + 1}
           /\ calls_made' \in {calls_made, calls_made + 1}
           /\ (calls_made' = calls_made + 1) = (dispatched' = dispatched + 1)
           /\ short = (dispatched' = dispatched)]_vars

\* A call whose backend call raised was counted all the same.
C14_Witness ==
    /\ last.sent
    /\ ~last.backend.ok
    /\ last.result.kind = "error"
    /\ last.result.code = "SF_API_ERROR"
    /\ calls_made = 1
    /\ dispatched = 1

\* C15 (as stated): an operation that ends with RATE_LIMIT_EXCEEDED or with
\* the confirmation signal made no backend call and did not increment
\* calls_made.
C15_OnlyProducedLocally ==
    [][LET r == last'.result
       IN  (r.kind = "confirm" \/ (r.kind = "error" /\ r.code = "RATE_LIMIT_EXCEEDED")) =>
             dispatched' = dispatched /\ calls_made' = calls_made]_vars

\* C15 (amended): the confirmation signal is only produced locally; a
\* RATE_LIMIT_EXCEEDED error is either produced locally by the rate-limit
\* check (usage snapshot attached, no backend call, no increment) or, in
\* query only, translated from a backend error whose message contains
\* REQUEST_LIMIT_EXCEEDED, after the call was dispatched and counted.
C15_LocalOrTranslatedByQuery ==
    [][LET r == last'.result
       IN  /\ r.kind = "confirm" => dispatched' = dispatched /\ calls_made' = calls_made
           /\ (r.kind = "error" /\ r.code = "RATE_LIMIT_EXCEEDED") =>
                \/ /\ dispatched' = dispatched
                   /\ calls_made' = calls_made
                   /\ "calls_made" \in DOMAIN r.details
                \/ /\ last'.call.op = "query"
                   /\ "REQUEST_LIMIT_EXCEEDED" \in last'.backend.msg
                   /\ dispatched' = dispatched + 1
                   /\ calls_made' = calls_made + 1
                   /\ r.details = NoDetails]_vars

\* A query ended with RATE_LIMIT_EXCEEDED after it had reached the backend.
C15_Witness ==
    /\ last.call.op = "query"
    /\ last.sent
    /\ last.result.kind = "error"
    /\ last.result.code = "RATE_LIMIT_EXCEEDED"
    /\ calls_made < daily_limit

\* C16: in every operation that reaches the backend, a backend error whose
\* message contains INVALID_SESSION_ID becomes a client error with code
\* AUTH_ERROR.
C16_InvalidSessionIsAuthError ==
    (last.sent /\ ~last.backend.ok /\ "INVALID_SESSION_ID" \in last.backend.msg) =>
        last.result.kind = "error" /\ last.result.code = "AUTH_ERROR"

\* C12: for a tracker with daily_limit > 0, after n record_call()s from a
\* fresh tracker is_exceeded holds exactly when n >= daily_limit and
\* is_warning exactly when n * 100 / daily_limit >= warning_threshold * 100;
\* with daily_limit = 10 and threshold 0.8: no warning at n = 7, warning and
\* not exceeded at n = 8, exceeded at n = 10.
C12_TrackerThresholds ==
    (probe.kind = "tracker" /\ daily_limit > 0) =>
        LET n == probe.n
            st == probe.status
        IN  /\ st.calls_made = n
            /\ st.is_exceeded = (n >= daily_limit)
            /\ st.is_warning = (n * 100 >= warning_pct * daily_limit)
            /\ (daily_limit = 10 /\ warning_pct = 80) =>
                 /\ n = 7 => ~st.is_warning
                 /\ n = 8 => st.is_warning /\ ~st.is_exceeded
                 /\ n = 10 => st.is_exceeded

\* The tracker of the scenario after its eighth call.
C12_Witness ==
    /\ probe.kind = "tracker"
    /\ daily_limit = 10
    /\ warning_pct = 80
    /\ probe.n = 8
    /\ calls_made = 8
    /\ probe.status.is_warning
    /\ ~probe.status.is_exceeded

RECURSIVE HasMetadata(_)
\* The metadata key occurs somewhere in the value x.
HasMetadata(x) ==
    IF x.t = "d"
    THEN Meta \in DOMAIN x.v \/ \E k \in DOMAIN x.v : HasMetadata(x.v[k])
    ELSE IF x.t = "l" THEN \E i \in DOMAIN x.v : HasMetadata(x.v[i])
    ELSE FALSE

\* y is x, without its own metadata key when x is a dict.
SameButMeta(x, y) ==
    IF x.t = "d"
    THEN /\ y.t = "d"
         /\ DOMAIN y.v = DOMAIN x.v \ {Meta}
         /\ \A j \in DOMAIN y.v : y.v[j] = x.v[j]
    ELSE y = x

\* C19: after a read operation succeeds, the returned record holds the key
\* 'attributes' at no nesting depth.
C19_NoMetadataAtAnyDepth ==
    (probe.kind = "norm" /\ probe.pass >= 1) => ~HasMetadata(D(probe.out))

\* C20: the normalization done by query removes only the metadata key (from
\* the record, from each nested object and from every object of a nested
\* list, the first and the others alike) and keeps every other field, and
\* it is idempotent: applied to its own output, or to a record without
\* metadata, it returns the record unchanged.
C20_QueryNormalizationIdempotent ==
    (probe.kind = "norm" /\ probe.op = "query") =>
        LET a == probe.given
            b == probe.out
        IN  /\ DOMAIN b = DOMAIN a \ {Meta}
            /\ \A k \in DOMAIN b :
                 IF a[k].t = "l"
                 THEN /\ b[k].t = "l"
                      /\ Len(b[k].v) = Len(a[k].v)
                      /\ \A i \in 1 .. Len(a[k].v) : SameButMeta(a[k].v[i], b[k].v[i])
                 ELSE SameButMeta(a[k], b[k])
            /\ ~HasMetadata(D(a)) => b = a
            /\ probe.pass = 2 => b = probe.prev

\* query cleaned a record with a list of two objects that both carried
\* metadata, and the loop was then run over its result again.
C20_Witness ==
    /\ probe.kind = "norm"
    /\ probe.op = "query"
    /\ probe.pass = 2
    /\ Meta \in DOMAIN probe.given
    /\ "Contacts" \in DOMAIN probe.given
    /\ Len(probe.given.Contacts.v) = 2
    /\ \A i \in 1 .. 2 :
          /\ probe.given.Contacts.v[i].t = "d"
          /\ Meta \in DOMAIN probe.given.Contacts.v[i].v
          /\ Meta \notin DOMAIN probe.out.Contacts.v[i].v
    /\ probe.out = probe.prev

MutatingTools == {"create_task", "update_lead_status", "create_case", "update_case"}

\* The tuple msg contains the text x.
Mentions(msg, x) == \E i \in DOMAIN msg : msg[i] = x

\* C17: every tool invocation ends by returning a payload and never raises
\* an exception to the transport, whatever the backend, the quota and the
\* configuration (missing credentials, failing client construction) are.
C17_ToolAlwaysReturnsPayload ==
    probe.kind = "tool" => probe.out.kind = "return"

\* C18: a mutating tool called with confirmed=false returns a confirmation
\* payload (success false, no error code) whose message names the pending
\* change and asks to call again with confirmed=true, and writes nothing;
\* the same call with confirmed=true returns a success payload with the
\* generated id.
C18_MutatingToolConfirms ==
    (/\ probe.kind = "tool"
     /\ probe.tool \in MutatingTools
     /\ HasClient(probe.env, probe.construct)
     /\ probe.tool = "update_case" => probe.args.fields \/ probe.args.comment) =>
        LET p == probe.out.payload
        IN  /\ probe.out.kind = "return"
            /\ ~probe.args.confirmed =>
                 /\ "error" \notin DOMAIN p
                 /\ "code" \notin DOMAIN p
                 /\ p.success = FALSE
                 /\ Mentions(p.message, "Call again with confirmed=true to proceed.")
                 /\ probe.tool = "create_task" => Mentions(p.message, probe.args.subject)
                 /\ probe.calls = 0
            /\ (probe.args.confirmed /\ "error" \notin DOMAIN p) =>
                 /\ p.success = TRUE
                 /\ \E k \in {"task_id", "case_id", "id"} : k \in DOMAIN p /\ p[k] = "id"
                 /\ probe.calls >= 1

\* C23: query, query_all, search and get_record never raise the
\* confirmation signal; each of them runs the rate-limit check before the
\* dispatch, is dispatched exactly when the quota is not used up, and then
\* increments calls_made by 1.
C23_ReadsSkipGuardButAreTracked ==
    [][LET c == last'.call
       IN  c.op \in ReadOps =>
             /\ last'.result.kind # "confirm"
             /\ last'.check.kind \in {"raise", "warning", "none"}
             /\ calls_made >= daily_limit =>
                  /\ last'.check.kind = "raise"
                  /\ dispatched' = dispatched
                  /\ calls_made' = calls_made
             /\ calls_made < daily_limit =>
                  /\ dispatched' = dispatched + 1
                  /\ calls_made' = calls_made + 1]_vars

\* A search was dispatched and counted after an earlier call.
C23_Witness ==
    /\ last.call.op = "search"
    /\ last.sent
    /\ last.check.kind = "none"
    /\ last.result.kind = "ok"
    /\ calls_made = 2

\* An operation was rejected by the rate-limit check of the client.
LocallyRejected(l) ==
    /\ l.result.kind = "error"
    /\ l.result.code = "RATE_LIMIT_EXCEEDED"
    /\ ~l.sent

\* C26: an operation is rejected locally with RATE_LIMIT_EXCEEDED only
\* when calls_made >= daily_limit, and from such a state on the client
\* stays there: every later read and confirmed write is rejected the same
\* way and no backend call is dispatched again.
C26_ExceededIsAbsorbing ==
    /\ [](LocallyRejected(last) => calls_made >= daily_limit)
    /\ [][calls_made >= daily_limit =>
            /\ calls_made' >= daily_limit'
            /\ dispatched' = dispatched
            /\ Checked(last'.call) => LocallyRejected(last')]_vars

\* A confirmed write was rejected on a client whose quota earlier calls had
\* used up.
C26_Witness ==
    /\ last.call.op \in WriteOps
    /\ last.call.confirmed
    /\ LocallyRejected(last)
    /\ daily_limit >= 2
    /\ dispatched = daily_limit

\* C27 (as stated): for every daily_limit >= 0 and threshold in (0,1],
\* is_exceeded implies is_warning and usage_percent >= 100.
C27_ExceededImpliesWarning ==
    probe.kind = "tracker" =>
        (probe.status.is_exceeded =>
            probe.status.is_warning /\ probe.status.usage_percent >= 1000)

\* C27 (amended): with daily_limit > 0 is_exceeded implies is_warning and
\* usage_percent >= 100; with daily_limit = 0 the tracker is exceeded from
\* the start while usage_percent is 0 and is_warning is false.
C27_ExceededImpliesWarningIfLimitPositive ==
    probe.kind = "tracker" =>
        /\ (daily_limit > 0 /\ probe.status.is_exceeded) =>
              probe.status.is_warning /\ probe.status.usage_percent >= 1000
        /\ daily_limit = 0 =>
              /\ probe.status.is_exceeded
              /\ ~probe.status.is_warning
              /\ probe.status.usage_percent = 0

\* A tracker with daily_limit 0 after one call: exceeded without warning.
C27_Witness ==
    /\ probe.kind = "tracker"
    /\ daily_limit = 0
    /\ probe.n = 1
    /\ probe.status.is_exceeded
    /\ ~probe.status.is_warning

\* The payload p reports a failure.
Failing(p) == "error" \in DOMAIN p \/ "code" \in DOMAIN p

\* Where a failing payload keeps its code and message.
Shape(p) == IF "code" \in DOMAIN p THEN "top level" ELSE "under error"

ReturnedFailure(pr) ==
    /\ pr.kind = "tool"
    /\ pr.out.kind = "return"
    /\ Failing(pr.out.payload)

\* C21: every failing tool call returns an error payload of one single
\* shape, with code and message at the same position, whether the tool
\* detected the failure or the client raised it: any two failing tool calls
\* in a row return the same shape.
C21_ErrorPayloadOneShape ==
    [][(ReturnedFailure(probe) /\ ReturnedFailure(probe')) =>
          Shape(probe'.out.payload) = Shape(probe.out.payload)]_vars

\* The tool was called without the input it requires.
InvalidInput(pr) ==
    \/ pr.tool \in {"get_account", "get_case"} /\ pr.args.sel = "none"
    \/ pr.tool = "update_case" /\ ~pr.args.fields /\ ~pr.args.comment

\* C22: get_account and get_case without an identifier, and update_case
\* without a field and without a comment, return INVALID_INPUT without
\* creating a client, without a backend call and without changing a usage
\* counter, whatever the confirmed flag is.
C22_InvalidInputTouchesNothing ==
    [][(probe'.kind = "tool" /\ InvalidInput(probe')) =>
          /\ probe'.out.kind = "return"
          /\ probe'.out.payload.code = "INVALID_INPUT"
          /\ ~probe'.client
          /\ probe'.calls = 0
          /\ dispatched' = dispatched
          /\ calls_made' = calls_made
          /\ daily_limit' = daily_limit]_vars

\* update_case was called with confirmed=true and nothing to change, after
\* an earlier tool run had used its client.
C22_Witness ==
    /\ probe.kind = "tool"
    /\ probe.tool = "update_case"
    /\ probe.args.confirmed
    /\ InvalidInput(probe)
    /\ probe.out.payload.code = "INVALID_INPUT"
    /\ calls_made = 2
    /\ dispatched = 2

\* C25: update_case with confirmed=true, field changes and a comment is
\* all-or-nothing: both writes were applied and the tool returns success,
\* or it returns an error payload and neither write was applied; with
\* confirmed=false neither write is dispatched.  The comment is created
\* only after the update has returned, so an error payload after two
\* backend calls means that the update was applied.
C25_UpdateCaseAllOrNothing ==
    (/\ probe.kind = "tool"
     /\ probe.tool = "update_case"
     /\ HasClient(probe.env, probe.construct)
     /\ probe.args.fields
     /\ probe.args.comment) =>
        LET p == probe.out.payload
        IN  IF probe.args.confirmed
            THEN \/ ~Failing(p) /\ p.success /\ probe.calls = 2
                 \/ Failing(p) /\ probe.calls <= 1
            ELSE probe.calls = 0

\* C28: a tool whose client is out of quota when the tool runs (every
\* call it makes is answered with RATE_LIMIT_EXCEEDED) returns the
\* RATE_LIMIT_EXCEEDED error payload, never a success payload, and the
\* first RATE_LIMIT_EXCEEDED stops the remaining queries of the tool.
C28_ToolFailsFastWhenExceeded ==
    (/\ probe.kind = "tool"
     /\ probe.tool \in {"get_recent_activities", "get_contacts_for_account"}
     /\ HasClient(probe.env, probe.construct)
     /\ probe.args.limited) =>
        /\ probe.out.kind = "return"
        /\ "error" \in DOMAIN probe.out.payload
        /\ probe.out.payload.error.code = "RATE_LIMIT_EXCEEDED"
        /\ probe.calls = 1

\* C24: query_all returns at most max_results records, and they are the
\* first min(n, max_results) records of the backend result in their
\* original order (each without its metadata key), for every length n of
\* the backend result and every max_results >= 0.
C24_QueryAllReturnsFirstRecords ==
    (probe.kind = "cap" /\ probe.pass = 1) =>
        LET n == Len(probe.given)
            m == probe.max_results
            k == IF n < m THEN n ELSE m
        IN  /\ Len(probe.out) = k
            /\ Len(probe.out) <= m
            /\ \A i \in 1 .. k :
                 /\ probe.out[i].Id = probe.given[i].Id
                 /\ DOMAIN probe.out[i] = DOMAIN probe.given[i] \ {"attributes"}

\* Three different records came back and two were asked for.
C24_Witness ==
    /\ probe.kind = "cap"
    /\ probe.pass = 1
    /\ Len(probe.given) = 3
    /\ probe.given[1].Id # probe.given[3].Id
    /\ probe.max_results = 2
    /\ Len(probe.out) = 2
    /\ calls_made = 1

Persisted(file) == IF file = <<>> THEN NoTimestamp ELSE file[1].last_sync_timestamp

\* C30: the persisted last_sync_timestamp changes only in a run where the
\* index was verified, the query succeeded and every fetched article was
\* uploaded; a run that fails leaves the previously persisted value
\* unchanged, also with full_sync=true.
C30_TimestampOnlyAfterFullSuccess ==
    (probe.kind = "sync" /\ probe.clock >= 1) =>
        LET succeeded == /\ probe.run.index_ready
                         /\ probe.run.query_ok
                         /\ probe.run.uploaded = probe.run.fetched
                         /\ probe.out.kind = "return"
        IN  Persisted(probe.file) # Persisted(probe.before) => succeeded

====
